---- MODULE Spec2Model ----
(***************************************************************************)
(* Model of src/src/App.js: the component state of App, its event          *)
(* handlers (handleNextClick, handleBackClick, handleCustomSubmit,         *)
(* handleSignInClick) and the /auth exchange of get_auth_status.           *)
(*                                                                         *)
(* An invocation of an async handler is a record in `loops`; it keeps the  *)
(* values its closure captured from the render in which the event fired.   *)
(* Every action is one synchronous run of code between two awaits.         *)
(* `net` holds the /auth requests awaiting their reply; `delivered` is the *)
(* reply that the step just taken handed to a handler, if it handed one,   *)
(* and whether fetch had thrown for it.                                    *)
(***************************************************************************)
EXTENDS Integers, Sequences, FiniteSets, TLC

VARIABLES ui, loops, net, delivered

vars == <<ui, loops, net, delivered>>

(* ---------------------------------------------------------------- bounds *)
\* number of async handler invocations (handleSignInClick / handleCustomSubmit)
MaxLoops == 3

(* ------------------------------------------------------- program constants *)
maxAttempts == 60

MsgPending == "Authentication pending. Please wait..."
MsgMobile == "We sent a notification to your mobile device. Please open it to continue."
MsgPhone == "We're calling your phone. Please answer it to continue."
MsgProcessing == "Processing your request..."
MsgIncorrectPassword == "Incorrect password. Please try again."
MsgIncorrectCode == "Incorrect code. Please try again."
MsgDuoCode == "Open your Duo app and Duo will send you a one time code. enter code here"
MsgUnexpected == "An unexpected error occurred. Please try again."
MsgTimeout == "Authentication timed out. Please try again."
MsgSubmitting == "Submitting..."
MsgNetwork == "Network error or server is down."

(* ------------------------------------------------------------ input sets *)
Emails == {"", "a@b.com"}
Passwords == {"", "p"}
DuoCodes == {"", "000000"}
CustomInputs == {"", "x"}

\* status_data.data: absent, or a custom step descriptor
NoData == [present |-> FALSE, title |-> "", subtitle |-> "", has_input |-> FALSE]
CustomData(h) == [present |-> TRUE, title |-> "T", subtitle |-> "S", has_input |-> h]

Reply(st, msg, d) == [status |-> st, message |-> msg, data |-> d]

\* the JSON bodies the backend may answer with (message "" = no message)
ServerReplies ==
    { Reply(s, "", NoData) : s \in {"pending", "mobile notification", "phone_call",
                                    "incorrect password", "duo code",
                                    "incorrect duo code", "success", "custom"} }
    \cup { Reply("custom", "", CustomData(h)) : h \in BOOLEAN }
    \cup { Reply("blocked", m, NoData) : m \in {"", "Account locked."} }

\* what fetch/response.json() does: a JSON body, or a thrown transport fault
FetchOutcomes == { [fault |-> FALSE, json |-> r] : r \in ServerReplies }
                 \cup { [fault |-> TRUE, json |-> Reply("", "", NoData)] }

(* ------------------------------------------------------- get_auth_status *)
\* the request body of POST /auth (user_id is fixed for the session)
AuthRequest(email, password, duoCode, customInput) ==
    [email |-> email, password |-> password, duoCode |-> duoCode, customInput |-> customInput]

\* mutant of get_auth_status: the catch returns no message
get_auth_status_NoMessage(o) ==
    IF o.fault THEN Reply("error", "", NoData) ELSE o.json

\* try { return await response.json() } catch { return {status:'error', ...} }
get_auth_status(o) ==
    IF o.fault THEN Reply("error", MsgNetwork, NoData) ELSE o.json

(* ------------------------------------------------------------ rendering *)
\* the ternary chain of the render logic
VisibleStep(s) ==
    IF s.isSuccessStep THEN "Success"
    ELSE IF s.isCustomStep THEN "CustomInput"
    ELSE IF s.isDuoMobileStep THEN (IF s.showDuoCodeInput THEN "DuoCodeInput" ELSE "DuoPrompt")
    ELSE IF s.isPasswordStep THEN "Password"
    ELSE "Email"

\* the message the visible step renders: only the duo views and the password
\* view contain {authMessage}
ShownMessage(s) ==
    IF VisibleStep(s) \in {"DuoCodeInput", "DuoPrompt", "Password"} THEN s.authMessage ELSE ""

NextDisabled(s) == s.email = ""
\* mutant of SignInDisabled: the button ignores the busy flag
SignInDisabled_NoBusy(s) == s.password = ""
SignInDisabled(s) == s.isSubmitting \/ s.password = ""
VerifyDisabled(s) == s.isSubmitting \/ s.duoCode = ""
CustomSubmitDisabled(s) == s.isSubmitting \/ s.customInput = ""
CustomFormShown(s) == s.customStepData.has_input

(* ----------------------------------------------- handleSignInClick pieces *)
IsContinuation(status) == status \in {"pending", "mobile notification", "phone_call"}

ContinuationMessage(status) ==
    IF status = "mobile notification" THEN MsgMobile
    ELSE IF status = "phone_call" THEN MsgPhone
    ELSE MsgPending

\* mutant of CustomNeedsInput: any descriptor pauses the loop
CustomNeedsInput_AnyData(r) == r.data.present

CustomNeedsInput(r) == r.data.present /\ r.data.has_input

CustomWaitMessage(d) ==
    IF d.present THEN d.title \o ": " \o d.subtitle ELSE MsgProcessing

\* mutant of ApplyContinuation: setIsDuoMobileStep(true) is missing
ApplyContinuation_NoDuoStep(s, r) ==
    [s EXCEPT !.isError = FALSE,
              !.authMessage = ContinuationMessage(r.status),
              !.isPasswordStep = FALSE,
              !.isCustomStep = FALSE,
              !.showDuoCodeInput = FALSE]

ApplyContinuation(s, r) ==
    [s EXCEPT !.isError = FALSE,
              !.authMessage = ContinuationMessage(r.status),
              !.isPasswordStep = FALSE,
              !.isDuoMobileStep = TRUE,
              !.isCustomStep = FALSE,
              !.showDuoCodeInput = FALSE]

ApplyCustomInput(s, r) ==
    [s EXCEPT !.customStepData = [title |-> r.data.title, subtitle |-> r.data.subtitle,
                                  has_input |-> r.data.has_input],
              !.isPasswordStep = FALSE,
              !.isDuoMobileStep = FALSE,
              !.isCustomStep = TRUE,
              !.authMessage = "",
              !.isSubmitting = FALSE]

ApplyCustomWait(s, r) ==
    [s EXCEPT !.isError = FALSE,
              !.authMessage = CustomWaitMessage(r.data),
              !.isPasswordStep = FALSE,
              !.isCustomStep = FALSE,
              !.isDuoMobileStep = TRUE,
              !.showDuoCodeInput = FALSE]

\* mutant of ApplyIncorrectPassword: the password field is emptied as well
ApplyIncorrectPassword_ClearsPassword(s) ==
    [s EXCEPT !.isError = TRUE,
              !.authMessage = MsgIncorrectPassword,
              !.isDuoMobileStep = FALSE,
              !.isPasswordStep = TRUE,
              !.password = ""]

\* mutant of ApplyIncorrectPassword: setIsPasswordStep(true) is missing
ApplyIncorrectPassword_NoStep(s) ==
    [s EXCEPT !.isError = TRUE,
              !.authMessage = MsgIncorrectPassword,
              !.isDuoMobileStep = FALSE]

ApplyIncorrectPassword(s) ==
    [s EXCEPT !.isError = TRUE,
              !.authMessage = MsgIncorrectPassword,
              !.isDuoMobileStep = FALSE,
              !.isPasswordStep = TRUE]

ApplyDuoCode(s, r) ==
    [s EXCEPT !.isError = (r.status = "incorrect duo code"),
              !.authMessage = IF r.status = "incorrect duo code" THEN MsgIncorrectCode ELSE MsgDuoCode,
              !.isPasswordStep = FALSE,
              !.isDuoMobileStep = TRUE,
              !.isCustomStep = FALSE,
              !.showDuoCodeInput = TRUE]

\* mutant of ApplySuccess: setIsSuccessStep(true) is missing
ApplySuccess_NoSuccessStep(s) ==
    [s EXCEPT !.isPasswordStep = FALSE,
              !.isDuoMobileStep = FALSE,
              !.isCustomStep = FALSE]

ApplySuccess(s) ==
    [s EXCEPT !.isSuccessStep = TRUE,
              !.isPasswordStep = FALSE,
              !.isDuoMobileStep = FALSE,
              !.isCustomStep = FALSE]

\* mutant of ApplyOther: `|| 'An unexpected error occurred. ...'` is missing
ApplyOther_NoFallback(s, r) ==
    [s EXCEPT !.isError = TRUE, !.authMessage = r.message]

\* mutant of ApplyOther: setIsError(true) is missing
ApplyOther_NoError(s, r) ==
    [s EXCEPT !.authMessage = IF r.message # "" THEN r.message ELSE MsgUnexpected]

ApplyOther(s, r) ==
    [s EXCEPT !.isError = TRUE,
              !.authMessage = IF r.message # "" THEN r.message ELSE MsgUnexpected]

\* the if / else-if chain of the loop body on one status_data
ApplyResponse(s, r) ==
    IF IsContinuation(r.status) THEN ApplyContinuation(s, r)
    ELSE IF r.status = "custom"
         THEN (IF CustomNeedsInput(r) THEN ApplyCustomInput(s, r) ELSE ApplyCustomWait(s, r))
    ELSE IF r.status = "incorrect password" THEN ApplyIncorrectPassword(s)
    ELSE IF r.status \in {"duo code", "incorrect duo code"} THEN ApplyDuoCode(s, r)
    ELSE IF r.status = "success" THEN ApplySuccess(s)
    ELSE ApplyOther(s, r)

\* mutant of ContinuePollingAfter: `success` is polled through
ContinuePollingAfter_Success(r) ==
    IsContinuation(r.status) \/ (r.status = "custom" /\ ~CustomNeedsInput(r))
        \/ r.status = "success"

\* mutant of ContinuePollingAfter: `duo code` is polled through
ContinuePollingAfter_DuoCode(r) ==
    IsContinuation(r.status) \/ (r.status = "custom" /\ ~CustomNeedsInput(r))
        \/ r.status = "duo code"

\* the value of continuePolling after the loop body: the branches that do not
\* assign false are the ones that await the 1000 ms timer and count an attempt
ContinuePollingAfter(r) ==
    IsContinuation(r.status) \/ (r.status = "custom" /\ ~CustomNeedsInput(r))

\* mutant of LoopCondition: off by one in the while test
LoopCondition_OffByOne(continuePolling, attempts) ==
    continuePolling /\ attempts <= maxAttempts

\* while (continuePolling && attempts < maxAttempts)
LoopCondition(continuePolling, attempts) ==
    continuePolling /\ attempts < maxAttempts

\* if (continuePolling && attempts >= maxAttempts) { timeout }
TimedOut(continuePolling, attempts) ==
    continuePolling /\ attempts >= maxAttempts

\* if (!continuePolling) setIsSubmitting(false)
ClearsSubmitting(continuePolling) == ~continuePolling

\* the code after the do-while
AfterLoop(s, continuePolling, attempts) ==
    LET s1 == IF TimedOut(continuePolling, attempts)
              THEN [s EXCEPT !.isError = TRUE, !.authMessage = MsgTimeout]
              ELSE s
    IN IF ClearsSubmitting(continuePolling) THEN [s1 EXCEPT !.isSubmitting = FALSE] ELSE s1

\* mutant of BeginSignIn: setShowDuoCodeInput(false) is missing
BeginSignIn_KeepCodeForm(s, isContinuation) ==
    IF isContinuation THEN s
    ELSE [s EXCEPT !.isSubmitting = TRUE,
                   !.authMessage = "",
                   !.isError = FALSE,
                   !.isPasswordStep = FALSE,
                   !.isDuoMobileStep = TRUE]

\* if (!isContinuation) { ... } at the top of handleSignInClick
BeginSignIn(s, isContinuation) ==
    IF isContinuation THEN s
    ELSE [s EXCEPT !.isSubmitting = TRUE,
                   !.authMessage = "",
                   !.isError = FALSE,
                   !.isPasswordStep = FALSE,
                   !.isDuoMobileStep = TRUE,
                   !.showDuoCodeInput = FALSE]

\* mutant of LoopRequest: the query goes out without the password
LoopRequest_NoPassword(l) == AuthRequest(l.email, "", l.duoCode, "")

\* mutant of LoopRequest: the loop never sends a code
LoopRequest_NoCode(l) == AuthRequest(l.email, l.password, "", "")

\* get_auth_status(email, password, duoCode) inside the loop: customInput defaults to ''
LoopRequest(l) == AuthRequest(l.email, l.password, l.duoCode, "")

\* get_auth_status(email, password, '', customInput) of handleCustomSubmit
CustomRequest(s) == AuthRequest(s.email, s.password, "", s.customInput)

(* ------------------------------------------------------ handler records *)
\* pc: "submit"   awaiting the query of handleCustomSubmit
\*     "inflight" awaiting get_auth_status in the do-while
\*     "waiting"  awaiting the 1000 ms timer
\*     "done"     the handler has returned
\* email/password/duoCode: the closure's values
\* origin: the form whose submit started the invocation
\* queries: the get_auth_status calls the do-while has made so far
\* onlyPending: every reply the do-while has had so far was `pending`
Invocation(pc, s, origin) ==
    [pc |-> pc, attempts |-> 0, continuePolling |-> TRUE,
     email |-> s.email, password |-> s.password, duoCode |-> s.duoCode,
     origin |-> origin, queries |-> 0, onlyPending |-> TRUE]

\* a returned handler: its locals are gone
Returned ==
    [pc |-> "done", attempts |-> 0, continuePolling |-> FALSE,
     email |-> "", password |-> "", duoCode |-> "",
     origin |-> "", queries |-> 0, onlyPending |-> FALSE]

InitialUi ==
    [email |-> "", password |-> "", isPasswordStep |-> FALSE, isDuoMobileStep |-> FALSE,
     isSuccessStep |-> FALSE, isSubmitting |-> FALSE, authMessage |-> "", duoCode |-> "",
     showDuoCodeInput |-> FALSE, isError |-> FALSE, isCustomStep |-> FALSE,
     customStepData |-> [title |-> "", subtitle |-> "", has_input |-> FALSE],
     customInput |-> ""]

NoDelivery == [to |-> 0, handler |-> "", fault |-> FALSE, reply |-> Reply("", "", NoData)]

Init ==
    /\ ui = InitialUi
    /\ loops = << >>
    /\ net = {}
    /\ delivered = NoDelivery

(* ---------------------------------------------------------------- helpers *)
Send(i, body) == [by |-> i, body |-> body]

\* the do-while enters its body: one more get_auth_status call
IssueQuery(l) == [l EXCEPT !.pc = "inflight", !.queries = @ + 1]

\* handleSignInClick up to its first await, for invocation record l0 in state s:
\* returns at once without a password, else begins and issues the first query
StartSignIn(s, l0, isContinuation) ==
    IF l0.password = ""
    THEN [ui |-> s, loop |-> Returned, sent |-> FALSE]
    ELSE [ui |-> BeginSignIn(s, isContinuation), loop |-> IssueQuery(l0), sent |-> TRUE]

(* -------------------------------------------- synchronous state updates *)
\* mutant of NextClicked: `if (email)` is missing
NextClicked_NoGuard(s) ==
    [s EXCEPT !.isPasswordStep = TRUE, !.authMessage = "", !.isError = FALSE]

\* handleNextClick: if (email) { setIsPasswordStep(true); ... }
NextClicked(s) ==
    IF s.email # ""
    THEN [s EXCEPT !.isPasswordStep = TRUE, !.authMessage = "", !.isError = FALSE]
    ELSE s

\* mutant of BackClicked: the busy flag is cleared as well
BackClicked_ClearsBusy(s) ==
    [s EXCEPT !.isPasswordStep = TRUE,
              !.isDuoMobileStep = FALSE,
              !.isCustomStep = FALSE,
              !.authMessage = "",
              !.isError = FALSE,
              !.isSubmitting = FALSE]

\* mutant of BackClicked: setIsCustomStep(false) is missing
BackClicked_KeepCustom(s) ==
    [s EXCEPT !.isPasswordStep = TRUE,
              !.isDuoMobileStep = FALSE,
              !.authMessage = "",
              !.isError = FALSE]

\* handleBackClick
BackClicked(s) ==
    [s EXCEPT !.isPasswordStep = TRUE,
              !.isDuoMobileStep = FALSE,
              !.isCustomStep = FALSE,
              !.authMessage = "",
              !.isError = FALSE]

\* the inline onClick of the password step's back button
PasswordBackClicked(s) ==
    [s EXCEPT !.isPasswordStep = FALSE, !.authMessage = "", !.isError = FALSE]

(* ------------------------------------------------------------ user input *)
\* onChange of the email input (email step)
SetEmail(v) ==
    /\ VisibleStep(ui) = "Email"
    /\ v # ui.email
    /\ ui' = [ui EXCEPT !.email = v]
    /\ delivered' = NoDelivery
    /\ UNCHANGED <<loops, net>>

\* onChange of the password input (password step)
SetPassword(v) ==
    /\ VisibleStep(ui) = "Password"
    /\ v # ui.password
    /\ ui' = [ui EXCEPT !.password = v]
    /\ delivered' = NoDelivery
    /\ UNCHANGED <<loops, net>>

\* onChange of the security code input (duo step showing the code form)
SetDuoCode(v) ==
    /\ VisibleStep(ui) = "DuoCodeInput"
    /\ v # ui.duoCode
    /\ ui' = [ui EXCEPT !.duoCode = v]
    /\ delivered' = NoDelivery
    /\ UNCHANGED <<loops, net>>

\* onChange of the custom input (custom step showing its form)
SetCustomInput(v) ==
    /\ VisibleStep(ui) = "CustomInput"
    /\ CustomFormShown(ui)
    /\ v # ui.customInput
    /\ ui' = [ui EXCEPT !.customInput = v]
    /\ delivered' = NoDelivery
    /\ UNCHANGED <<loops, net>>

(* -------------------------------------------------------------- handlers *)
\* submit of the email form
handleNextClick ==
    /\ VisibleStep(ui) = "Email"
    /\ ~NextDisabled(ui)
    /\ ui' = NextClicked(ui)
    /\ delivered' = NoDelivery
    /\ UNCHANGED <<loops, net>>

\* the back button of the duo step and of the custom step
handleBackClick ==
    /\ VisibleStep(ui) \in {"DuoPrompt", "DuoCodeInput", "CustomInput"}
    /\ ui' = BackClicked(ui)
    /\ delivered' = NoDelivery
    /\ UNCHANGED <<loops, net>>

\* the inline back button of the password step
PasswordBackClick ==
    /\ VisibleStep(ui) = "Password"
    /\ ui' = PasswordBackClicked(ui)
    /\ delivered' = NoDelivery
    /\ UNCHANGED <<loops, net>>

\* a form submit that calls handleSignInClick(e): from the password form
\* (origin "password") or from the security code form (origin "duo")
SignInSubmit(origin) ==
    /\ Len(loops) < MaxLoops
    /\ LET i == Len(loops) + 1
           r == StartSignIn(ui, Invocation("inflight", ui, origin), FALSE)
       IN /\ ui' = r.ui
          /\ loops' = Append(loops, r.loop)
          /\ net' = IF r.sent THEN net \cup {Send(i, LoopRequest(r.loop))} ELSE net
    /\ delivered' = NoDelivery

PasswordSubmit ==
    /\ VisibleStep(ui) = "Password"
    /\ ~SignInDisabled(ui)
    /\ SignInSubmit("password")

DuoCodeSubmit ==
    /\ VisibleStep(ui) = "DuoCodeInput"
    /\ ~VerifyDisabled(ui)
    /\ SignInSubmit("duo")

\* handleCustomSubmit up to its await
CustomSubmit ==
    /\ VisibleStep(ui) = "CustomInput"
    /\ CustomFormShown(ui)
    /\ ~CustomSubmitDisabled(ui)
    /\ Len(loops) < MaxLoops
    /\ ui' = [ui EXCEPT !.isSubmitting = TRUE, !.authMessage = MsgSubmitting, !.isError = FALSE]
    /\ loops' = Append(loops, Invocation("submit", ui, "custom"))
    /\ net' = net \cup {Send(Len(loops) + 1, CustomRequest(ui))}
    /\ delivered' = NoDelivery

\* handleCustomSubmit after its await (the reply is not used), then the call
\* handleSignInClick(e, true) up to its first await
CustomSubmitReply(i, o) ==
    /\ loops[i].pc = "submit"
    /\ LET s1 == [ui EXCEPT !.customInput = "",
                            !.isCustomStep = FALSE,
                            !.isDuoMobileStep = TRUE,
                            !.showDuoCodeInput = FALSE,
                            !.authMessage = MsgPending]
           r == StartSignIn(s1, loops[i], TRUE)
           rest == {q \in net : q.by # i}
       IN /\ ui' = r.ui
          /\ loops' = [loops EXCEPT ![i] = r.loop]
          /\ net' = IF r.sent THEN rest \cup {Send(i, LoopRequest(r.loop))} ELSE rest
    /\ delivered' = [to |-> i, handler |-> "handleCustomSubmit", fault |-> o.fault,
                     reply |-> get_auth_status(o)]

\* the loop body after `await get_auth_status(...)` returned, up to the next await
\* or, when the loop ends here, through the code after the loop
LoopReply(i, o) ==
    /\ loops[i].pc = "inflight"
    /\ LET l == loops[i]
           r == get_auth_status(o)
           s1 == ApplyResponse(ui, r)
           cont == l.continuePolling /\ ContinuePollingAfter(r)
           l1 == [l EXCEPT !.continuePolling = cont,
                           !.onlyPending = @ /\ r.status = "pending"]
       IN /\ net' = {q \in net : q.by # i}
          /\ delivered' = [to |-> i, handler |-> "handleSignInClick", fault |-> o.fault,
                           reply |-> r]
          /\ IF ContinuePollingAfter(r)
             THEN /\ ui' = s1
                  /\ loops' = [loops EXCEPT ![i] = [l1 EXCEPT !.pc = "waiting"]]
             ELSE /\ ui' = AfterLoop(s1, cont, l.attempts)
                  /\ loops' = [loops EXCEPT ![i] = Returned]

\* the 1000 ms timer fired: attempts++, the while test, then either the next
\* query or the code after the loop
LoopTimer(i) ==
    /\ loops[i].pc = "waiting"
    /\ LET l == [loops[i] EXCEPT !.attempts = @ + 1]
       IN IF LoopCondition(l.continuePolling, l.attempts)
          THEN /\ loops' = [loops EXCEPT ![i] = IssueQuery(l)]
               /\ net' = net \cup {Send(i, LoopRequest(l))}
               /\ ui' = ui
          ELSE /\ loops' = [loops EXCEPT ![i] = Returned]
               /\ net' = net
               /\ ui' = AfterLoop(ui, l.continuePolling, l.attempts)
    /\ delivered' = NoDelivery

Next ==
    \/ \E v \in Emails : SetEmail(v)
    \/ \E v \in Passwords : SetPassword(v)
    \/ \E v \in DuoCodes : SetDuoCode(v)
    \/ \E v \in CustomInputs : SetCustomInput(v)
    \/ handleNextClick
    \/ handleBackClick
    \/ PasswordBackClick
    \/ PasswordSubmit
    \/ DuoCodeSubmit
    \/ CustomSubmit
    \/ \E i \in 1..Len(loops), o \in FetchOutcomes : CustomSubmitReply(i, o)
    \/ \E i \in 1..Len(loops), o \in FetchOutcomes : LoopReply(i, o)
    \/ \E i \in 1..Len(loops) : LoopTimer(i)

Spec == Init /\ [][Next]_vars

(* ================================================================ claims *)
\* the invocation is inside the do-while of handleSignInClick
Live(l) == l.pc \in {"inflight", "waiting"}

Requests(n, i) == {q \in n : q.by = i}

(* ---- C1 *)
\* C1: a loop instance never issues more than 60 status queries; a loop whose
\* replies were all `pending` keeps waiting after each reply, and when its timer
\* fires it halts exactly when it has issued 60 queries, with isError = true and
\* the message "Authentication timed out. Please try again.".
C1_AttemptBound ==
    [][\A i \in 1..Len(loops) :
          /\ loops'[i].queries <= 60
          /\ (loops[i].pc = "inflight" /\ loops'[i] # loops[i] /\ loops'[i].onlyPending) =>
                loops'[i].pc = "waiting"
          /\ (loops[i].pc = "waiting" /\ loops[i].onlyPending /\ loops'[i] # loops[i]) =>
                /\ (loops'[i].pc = "done") <=> (loops[i].queries = 60)
                /\ loops'[i].pc = "done" =>
                      (ui'.isError /\ ui'.authMessage = "Authentication timed out. Please try again.")
                /\ loops'[i].pc # "done" =>
                      (loops'[i].pc = "inflight" /\ loops'[i].queries = loops[i].queries + 1)
      ]_vars

\* 60 queries issued and every one answered `pending`
C1_Witness ==
    \E i \in 1..Len(loops) :
        loops[i].pc = "waiting" /\ loops[i].onlyPending /\ loops[i].queries = 60

(* ---- C2 *)
\* C2: whenever a poll loop instance halts, for whatever reason, the busy flag
\* isSubmitting is false afterwards.
C2_BusyClearedOnHalt ==
    [][\A i \in 1..Len(loops) :
          (Live(loops[i]) /\ loops'[i].pc = "done") => ~ui'.isSubmitting]_vars

(* ---- C3 *)
\* C3: every custom-input submission starts a poll loop: when handleCustomSubmit
\* resumes after its own query, the loop has issued a status query.
C3_CustomSubmitStartsLoop ==
    [][\A i \in 1..Len(loops) :
          (loops[i].pc = "submit" /\ loops'[i] # loops[i]) =>
              (loops'[i].pc = "inflight" /\ Requests(net', i) # {})]_vars

C5_SingleLoop ==
    /\ Cardinality({i \in 1..Len(loops) : loops[i].pc # "done"}) <= 1
    /\ Cardinality(net) <= 1

\* a loop is polling while the user is back on the password form with a
\* password typed in
C5_Witness ==
    /\ \E i \in 1..Len(loops) : Live(loops[i])
    /\ VisibleStep(ui) = "Password"
    /\ ui.password # ""

(* ---- C6 *)
\* what the classification of reply r leaves in the component state s
Reflects(s, r) ==
    IF r.status = "pending" THEN s.authMessage = "Authentication pending. Please wait..."
    ELSE IF r.status = "mobile notification"
         THEN s.authMessage = "We sent a notification to your mobile device. Please open it to continue."
    ELSE IF r.status = "phone_call"
         THEN s.authMessage = "We're calling your phone. Please answer it to continue."
    ELSE IF r.status = "custom" /\ r.data.present /\ r.data.has_input
         THEN s.isCustomStep /\ s.customStepData.title = r.data.title /\ s.authMessage = ""
    ELSE IF r.status = "custom" /\ r.data.present THEN s.authMessage = "T: S"
    ELSE IF r.status = "custom" THEN s.authMessage = "Processing your request..."
    ELSE IF r.status = "incorrect password"
         THEN s.isError /\ s.isPasswordStep /\ s.authMessage = "Incorrect password. Please try again."
    ELSE IF r.status = "duo code" THEN s.showDuoCodeInput /\ ~s.isError
    ELSE IF r.status = "incorrect duo code" THEN s.showDuoCodeInput /\ s.isError
    ELSE IF r.status = "success" THEN s.isSuccessStep
    ELSE s.isError /\ s.authMessage =
            (IF r.message # "" THEN r.message ELSE "An unexpected error occurred. Please try again.")

\* C6 as stated: every reply to a status query, whichever handler awaited it,
\* is classified and its outcome is in the component state when the handler
\* goes on.
C6_Original ==
    delivered.to # 0 => Reflects(ui, delivered.reply)

\* C6 amended: every reply to a query of the poll loop (handleSignInClick) is
\* classified and its outcome applied while that loop has no query in flight,
\* and no handler ever has two queries in flight; the reply to the query that
\* handleCustomSubmit issues itself is dropped unclassified: whatever it is,
\* the approval prompt with the pending message is shown.
C6_LoopRepliesClassified ==
    /\ delivered.handler = "handleSignInClick" =>
          (Reflects(ui, delivered.reply) /\ Requests(net, delivered.to) = {})
    /\ \A i \in 1..Len(loops) : Cardinality(Requests(net, i)) <= 1
    /\ delivered.handler = "handleCustomSubmit" =>
          (VisibleStep(ui) = "DuoPrompt" /\ ui.authMessage = MsgPending /\ ~ui.isSuccessStep)

\* the loop has classified a terminal error reply
C6_Witness ==
    /\ delivered.handler = "handleSignInClick"
    /\ delivered.reply.status = "blocked"
    /\ ui.isError
    /\ ui.authMessage = "Account locked."

(* ---- C7 *)
StepEntered(step) == VisibleStep(ui) # step /\ VisibleStep(ui') = step

\* the step taken applies the classified outcome of a loop reply
AppliesReply == delivered'.handler = "handleSignInClick"

\* C7 as stated: the DuoPrompt (with CustomWait and the terminal error, which
\* render as it), DuoCodeInput, CustomInput and Success steps become visible
\* only in a step that applies the classified outcome of a status reply.
C7_Original ==
    [][(\E step \in {"DuoPrompt", "DuoCodeInput", "CustomInput", "Success"} : StepEntered(step))
          => AppliesReply]_vars

\* C7 amended: DuoCodeInput, CustomInput and Success become visible only by
\* applying the classified outcome of a loop reply; the DuoPrompt step is also
\* entered directly by handleSignInClick when a form submit calls it and by
\* handleCustomSubmit when its own query has returned.
C7_StepWriters ==
    [][/\ (\E step \in {"DuoCodeInput", "CustomInput", "Success"} : StepEntered(step))
             => AppliesReply
       /\ StepEntered("DuoPrompt") =>
             \/ AppliesReply
             \/ PasswordSubmit
             \/ DuoCodeSubmit
             \/ delivered'.handler = "handleCustomSubmit"
      ]_vars

\* the password form was submitted after a code had been typed: the approval
\* prompt shows before any reply
C7_Witness ==
    /\ \E i \in 1..Len(loops) :
          loops[i].pc = "inflight" /\ loops[i].queries = 1 /\ loops[i].origin = "password"
    /\ delivered = NoDelivery
    /\ VisibleStep(ui) = "DuoPrompt"
    /\ ui.showDuoCodeInput = FALSE
    /\ ui.duoCode # ""

(* ---- C8 *)
\* C8: a reply `pending`, `mobile notification` or `phone_call`, from any prior
\* state, keeps the loop polling (continuePolling stays true and the loop waits
\* for its timer), makes DuoPrompt the visible step, clears the error flag and
\* sets the message fixed for the tag.
C8_Continuation ==
    (/\ delivered.handler = "handleSignInClick"
     /\ delivered.reply.status \in {"pending", "mobile notification", "phone_call"}) =>
        /\ loops[delivered.to].pc = "waiting"
        /\ loops[delivered.to].continuePolling
        /\ VisibleStep(ui) = "DuoPrompt"
        /\ ~ui.isError
        /\ ui.authMessage =
              (IF delivered.reply.status = "pending" THEN "Authentication pending. Please wait..."
               ELSE IF delivered.reply.status = "mobile notification"
               THEN "We sent a notification to your mobile device. Please open it to continue."
               ELSE "We're calling your phone. Please answer it to continue.")

\* a phone_call reply arrived after the user had gone back and edited the
\* password the loop is polling with
C8_Witness ==
    /\ delivered.handler = "handleSignInClick"
    /\ delivered.reply.status = "phone_call"
    /\ loops[delivered.to].password # ui.password
    /\ VisibleStep(ui) = "DuoPrompt"

(* ---- C9 *)
\* C9: a `custom` reply with data.has_input true stops the loop, stores the
\* descriptor and makes CustomInput the visible step with an empty message; a
\* `custom` reply with has_input false or without data keeps the loop polling,
\* shows the waiting prompt and sets the message to "title: subtitle" or, with
\* no data, to "Processing your request...".
C9_CustomBranching ==
    (delivered.handler = "handleSignInClick" /\ delivered.reply.status = "custom") =>
        IF delivered.reply.data.present /\ delivered.reply.data.has_input
        THEN /\ loops[delivered.to].pc = "done"
             /\ ui.customStepData = [title |-> "T", subtitle |-> "S", has_input |-> TRUE]
             /\ VisibleStep(ui) = "CustomInput"
             /\ ui.authMessage = ""
        ELSE /\ loops[delivered.to].pc = "waiting"
             /\ loops[delivered.to].continuePolling
             /\ VisibleStep(ui) = "DuoPrompt"
             /\ ui.authMessage =
                   (IF delivered.reply.data.present THEN "T: S" ELSE "Processing your request...")

\* a custom reply that asks for input has been applied
C9_Witness ==
    /\ delivered.handler = "handleSignInClick"
    /\ delivered.reply.status = "custom"
    /\ delivered.reply.data.has_input
    /\ VisibleStep(ui) = "CustomInput"

(* ---- C10 *)
\* C10: a loop that receives `success`, `incorrect password`, `duo code`,
\* `incorrect duo code` or an unrecognized status has returned when the reply
\* is applied, with no query in flight, and a returned handler never issues a
\* query again.
C10_ResolutionStops ==
    [][/\ (/\ delivered'.handler = "handleSignInClick"
           /\ delivered'.reply.status \notin
                 {"pending", "mobile notification", "phone_call", "custom"}) =>
              (loops'[delivered'.to].pc = "done" /\ Requests(net', delivered'.to) = {})
       /\ \A i \in 1..Len(loops) :
             loops[i].pc = "done" => (loops'[i].pc = "done" /\ Requests(net', i) = {})
      ]_vars

\* the loop has returned on a `duo code` reply
C10_Witness ==
    /\ delivered.handler = "handleSignInClick"
    /\ delivered.reply.status = "duo code"
    /\ loops[delivered.to].pc = "done"
    /\ net = {}

UserMoves(s) ==
    LET step == VisibleStep(s)
    IN  IF step = "Email"
        THEN { [s EXCEPT !.email = v] : v \in Emails }
             \cup (IF NextDisabled(s) THEN {} ELSE {NextClicked(s)})
        ELSE IF step = "Password"
        THEN { [s EXCEPT !.password = v] : v \in Passwords } \cup {PasswordBackClicked(s)}
        ELSE IF step = "DuoPrompt" THEN {BackClicked(s)}
        ELSE IF step = "DuoCodeInput"
        THEN { [s EXCEPT !.duoCode = v] : v \in DuoCodes } \cup {BackClicked(s)}
        ELSE IF step = "CustomInput"
        THEN {BackClicked(s)}
             \cup (IF CustomFormShown(s)
                   THEN { [s EXCEPT !.customInput = v] : v \in CustomInputs } ELSE {})
        ELSE {}

RECURSIVE UserReach(_)
UserReach(S) ==
    LET T == S \cup UNION { UserMoves(s) : s \in S }
    IN  IF T = S THEN S ELSE UserReach(T)

\* a submit that starts a poll loop is enabled in s
CanStartLoop(s) ==
    \/ VisibleStep(s) = "Password" /\ ~SignInDisabled(s)
    \/ VisibleStep(s) = "DuoCodeInput" /\ ~VerifyDisabled(s) /\ s.password # ""
    \/ /\ VisibleStep(s) = "CustomInput" /\ CustomFormShown(s)
       /\ ~CustomSubmitDisabled(s) /\ s.password # ""

CanRetry(s) == \E x \in UserReach({s}) : CanStartLoop(x)

NoHandlerRuns == Len(loops) > 0 /\ \A i \in 1..Len(loops) : loops[i].pc = "done"

\* C12: after every error outcome (isError set, no handler running) some
\* sequence of enabled user actions leads to a submit that starts a new poll
\* loop.
C12_RetryAfterError ==
    (NoHandlerRuns /\ ui.isError) => CanRetry(ui)

\* the same for every error outcome but the timeout
C12_ExceptTimeout ==
    (NoHandlerRuns /\ ui.isError /\ ui.authMessage # MsgTimeout) => CanRetry(ui)

(* ---- C13 *)
\* C13: a credential rejection returns the flow to the relevant input step
\* with an error-flagged message: `incorrect password` makes Password the
\* visible step with isError true and "Incorrect password. Please try
\* again."; `incorrect duo code` makes DuoCodeInput the visible step with
\* isError true and "Incorrect code. Please try again."; `duo code` makes
\* DuoCodeInput visible with isError false.
C13_CredentialRejection ==
    delivered.handler = "handleSignInClick" =>
        /\ delivered.reply.status = "incorrect password" =>
              /\ VisibleStep(ui) = "Password"
              /\ ui.isError
              /\ ui.authMessage = "Incorrect password. Please try again."
        /\ delivered.reply.status = "incorrect duo code" =>
              /\ VisibleStep(ui) = "DuoCodeInput"
              /\ ui.isError
              /\ ui.authMessage = "Incorrect code. Please try again."
        /\ delivered.reply.status = "duo code" =>
              /\ VisibleStep(ui) = "DuoCodeInput"
              /\ ~ui.isError

\* the password was rejected in a submission later than the session's first
C13_Witness ==
    /\ delivered.handler = "handleSignInClick"
    /\ delivered.reply.status = "incorrect password"
    /\ Len(loops) > 1
    /\ VisibleStep(ui) = "Password"
    /\ ui.isError

(* ---- C14 *)
\* C14 as stated: after an `incorrect password` rejection the stored password
\* is the empty string.
C14_Original ==
    (/\ delivered.handler = "handleSignInClick"
     /\ delivered.reply.status = "incorrect password") => ui.password = ""

\* C14: an `incorrect password` rejection leaves the stored password as it
\* was; when it is non-empty the Sign in button of the Password step is
\* enabled at once, so the next loop instance can start with the same password.
C14_PasswordKept ==
    [][ (/\ delivered'.handler = "handleSignInClick"
         /\ delivered'.reply.status = "incorrect password") =>
            /\ ui'.password = ui.password
            /\ ui.password # "" =>
                  (VisibleStep(ui') = "Password" /\ ~SignInDisabled(ui')) ]_vars

C14_Witness ==
    /\ delivered.handler = "handleSignInClick"
    /\ delivered.reply.status = "incorrect password"
    /\ ui.password # ""
    /\ VisibleStep(ui) = "Password"
    /\ ~SignInDisabled(ui)

(* ---- C15 *)
\* the status queries of the do-while that this step issues for invocation i
LoopQueriesIssued(i) ==
    IF loops'[i].pc = "inflight" THEN Requests(net', i) \ net ELSE {}

\* C15 as stated: every status query of a loop carries the email, password and
\* duoCode that were current when the loop started, that is, when it issued
\* its first query.
C15_Original ==
    [][\A i \in 1..Len(loops') :
          /\ \A q \in LoopQueriesIssued(i) :
                /\ q.body.email = loops'[i].email
                /\ q.body.password = loops'[i].password
                /\ q.body.duoCode = loops'[i].duoCode
                /\ loops'[i].queries = 1 =>
                      /\ q.body.email = ui.email
                      /\ q.body.password = ui.password
                      /\ q.body.duoCode = ui.duoCode
          /\ (i <= Len(loops) /\ loops[i].pc # "done" /\ loops'[i].pc # "done") =>
                /\ loops'[i].email = loops[i].email
                /\ loops'[i].password = loops[i].password
                /\ loops'[i].duoCode = loops[i].duoCode
      ]_vars

\* C15: every status query of a loop carries the email, password and duoCode
\* that the component state held when the submit handler that runs the loop
\* was invoked (for a loop that a custom-input submission starts: when the
\* custom form was submitted); edits made while the handler runs do not change
\* them.
C15_ClosureValues ==
    [][\A i \in 1..Len(loops') :
          /\ (i > Len(loops) /\ loops'[i].pc # "done") =>
                /\ loops'[i].email = ui.email
                /\ loops'[i].password = ui.password
                /\ loops'[i].duoCode = ui.duoCode
          /\ \A q \in LoopQueriesIssued(i) :
                /\ q.body.email = loops'[i].email
                /\ q.body.password = loops'[i].password
                /\ q.body.duoCode = loops'[i].duoCode
          /\ (i <= Len(loops) /\ loops[i].pc # "done" /\ loops'[i].pc # "done") =>
                /\ loops'[i].email = loops[i].email
                /\ loops'[i].password = loops[i].password
                /\ loops'[i].duoCode = loops[i].duoCode
      ]_vars

\* a later query of a loop is in flight with the password of the submission
\* after the user went back and changed the password field
C15_Witness ==
    \E q \in net :
        /\ loops[q.by].pc = "inflight"
        /\ loops[q.by].queries > 1
        /\ q.body.password = loops[q.by].password
        /\ ui.password # loops[q.by].password

(* ---- C16 *)
\* C16: going back from DuoPrompt (which also shows the custom wait message),
\* DuoCodeInput or CustomInput makes Password the visible step, never Email;
\* going back from Password makes Email the visible step; both clear the
\* message and the error flag.
C16_GoBack ==
    [][ /\ handleBackClick =>
              /\ VisibleStep(ui') = "Password"
              /\ ui'.authMessage = ""
              /\ ~ui'.isError
        /\ PasswordBackClick =>
              /\ VisibleStep(ui') = "Email"
              /\ ui'.authMessage = ""
              /\ ~ui'.isError ]_vars

\* the user went back twice while a query of the loop is in flight
C16_Witness ==
    /\ \E i \in 1..Len(loops) : loops[i].pc = "inflight"
    /\ VisibleStep(ui) = "Email"
    /\ ui.authMessage = ""
    /\ ~ui.isError

(* ---- C17 *)
\* C17 as stated: a `success` reply halts the loop and yields the Success step
\* with an empty message and the error flag false.
C17_Original ==
    (delivered.handler = "handleSignInClick" /\ delivered.reply.status = "success") =>
        /\ loops[delivered.to].pc = "done"
        /\ VisibleStep(ui) = "Success"
        /\ ui.authMessage = ""
        /\ ~ui.isError

\* C17: a `success` reply halts the loop and yields the Success step with the
\* error flag false and the busy flag false; it leaves authMessage as it was,
\* so the message of an earlier continuation reply stays stored, but the
\* Success view renders no message.
C17_Success ==
    [][ (delivered'.handler = "handleSignInClick" /\ delivered'.reply.status = "success") =>
            /\ loops'[delivered'.to].pc = "done"
            /\ Requests(net', delivered'.to) = {}
            /\ VisibleStep(ui') = "Success"
            /\ ~ui'.isError
            /\ ~ui'.isSubmitting
            /\ ui'.authMessage = ui.authMessage
            /\ ShownMessage(ui') = "" ]_vars

\* success came after a continuation reply of the same loop had set a message
C17_Witness ==
    /\ delivered.handler = "handleSignInClick"
    /\ delivered.reply.status = "success"
    /\ VisibleStep(ui) = "Success"
    /\ ui.authMessage # ""
    /\ ~ui.isError

(* ---- C18 *)
ListedTags ==
    {"pending", "mobile notification", "phone_call", "custom", "incorrect password",
     "duo code", "incorrect duo code", "success"}

C18_WitnessOwnMessage ==
    /\ delivered.handler = "handleSignInClick"
    /\ delivered.reply.status \notin ListedTags
    /\ ~delivered.fault
    /\ delivered.reply.message # ""
    /\ ui.authMessage = delivered.reply.message

(* ---- C19 *)
\* C19: in every status query of a loop that a password submission started,
\* duoCode and customInput are the empty string, also when the user had
\* entered a Duo code earlier in the session.
C19_PasswordLoopQueries ==
    \A q \in net :
        (loops[q.by].origin = "password" /\ loops[q.by].pc = "inflight") =>
            (q.body.duoCode = "" /\ q.body.customInput = "")

\* the customInput half of C19
C19_CustomInputEmpty ==
    \A q \in net :
        (loops[q.by].origin = "password" /\ loops[q.by].pc = "inflight") =>
            q.body.customInput = ""

(* ---- C20 *)
\* C20: submitting the email step with a non-empty email makes Password the
\* visible step and clears the message and the error flag; with an empty
\* email (the Next button is disabled then) the handler changes no state.
C20_EmailSubmit ==
    [][ /\ handleNextClick =>
              /\ ui.email # ""
              /\ VisibleStep(ui') = "Password"
              /\ ui'.authMessage = ""
              /\ ~ui'.isError
        /\ (VisibleStep(ui) = "Email" /\ ui.email = "") =>
              (NextDisabled(ui) /\ NextClicked(ui) = ui) ]_vars

\* the password view is up before any submit handler has run
C20_Witness ==
    /\ Len(loops) = 0
    /\ ui.email # ""
    /\ VisibleStep(ui) = "Password"
    /\ ui.authMessage = ""
    /\ ~ui.isError

\* the email view with an empty email and a stored error message, where the
\* handler would have something to clear
C20_WitnessEmpty ==
    /\ VisibleStep(ui) = "Email"
    /\ ui.email = ""
    /\ ui.isError
    /\ ui.authMessage # ""

(* ---- C21 *)
\* C21: handleBackClick leaves a running poll loop untouched: the handler
\* records (attempt counter, continuePolling) and the queries in flight are
\* unchanged and the busy flag stays true; the loop keeps issuing queries
\* whatever step is visible, and its next continuation reply makes DuoPrompt
\* the visible step again.
C21_BackLeavesLoop ==
    [][ /\ handleBackClick =>
              /\ loops' = loops
              /\ net' = net
              /\ (\E i \in 1..Len(loops) : Live(loops[i])) => (ui.isSubmitting /\ ui'.isSubmitting)
        /\ \A i \in 1..Len(loops) :
              (/\ loops[i].pc = "waiting"
               /\ loops'[i] # loops[i]
               /\ loops[i].attempts + 1 < 60) =>
                  /\ loops'[i].pc = "inflight"
                  /\ loops'[i].attempts = loops[i].attempts + 1
                  /\ Requests(net', i) # {}
        /\ (/\ VisibleStep(ui) # "DuoPrompt"
            /\ delivered'.handler = "handleSignInClick"
            /\ delivered'.reply.status \in {"pending", "mobile notification", "phone_call"}) =>
                  VisibleStep(ui') = "DuoPrompt" ]_vars

\* a continuation reply brought DuoPrompt back after the user had gone back to
\* the email view and changed the email while the loop was polling
C21_Witness ==
    /\ delivered.handler = "handleSignInClick"
    /\ delivered.reply.status \in {"pending", "mobile notification", "phone_call"}
    /\ loops[delivered.to].attempts >= 1
    /\ loops[delivered.to].email # ui.email
    /\ ui.isSubmitting
    /\ VisibleStep(ui) = "DuoPrompt"

(* ---- C22 *)
\* C22: Success is absorbing: while the Success step is visible no handler is
\* running and no status query is in flight, so no reply can arrive, and no
\* user action or handler step is enabled; nothing changes the visible step
\* and no further status query is issued.
C22_SuccessAbsorbing ==
    VisibleStep(ui) = "Success" =>
        /\ \A i \in 1..Len(loops) : loops[i].pc = "done"
        /\ net = {}
        /\ ~ENABLED Next

\* Success was reached by a submission later than the session's first
C22_Witness ==
    /\ VisibleStep(ui) = "Success"
    /\ Len(loops) >= 2
    /\ ~ui.isSubmitting
    /\ net = {}
====
